---- MODULE Spec2Model ----
(***************************************************************************)
(* Model of fink_broker/hbaseUtils.py: the column classifier, the family   *)
(* assignment, the row-key builder, the HBase catalog compiler, the        *)
(* schema-row synthesizer and the store writer push_to_hbase.              *)
(*                                                                         *)
(* Python str values are TLA+ strings (Len, SubSeq and \o act on them).    *)
(* A DataFrame is [columns |-> sequence of fields, rows |-> sequence of    *)
(* rows], a row being a sequence of values aligned with the columns.       *)
(* Column expressions refer to top-level columns (a name, or an alias of   *)
(* one); the catalog text is kept as its sequence of entries.  A double is *)
(* held as its number of tenths.                                           *)
(***************************************************************************)
EXTENDS Integers, Sequences, FiniteSets, TLC

VARIABLES
    ret,        \* the last call of a pure operation: its arguments and result
    pc,         \* position inside push_to_hbase ("idle" between calls)
    call,       \* arguments and locals of the running push_to_hbase call
    table,      \* the rows of each HBase table, by table name
    files,      \* the side files on disk: path -> catalog
    outcome,    \* how the most recent push_to_hbase call ended
    snap,       \* table and files as they were when the call started
    committed,  \* the (catfolder, table) pairs of which one batch did both writes
    loaded,     \* the result of the last load_hbase_data
    fbvsn,      \* fink_broker.__version__
    fsvsn       \* fink_science.__version__

vars == <<ret, pc, call, table, files, outcome, snap, committed, loaded, fbvsn, fsvsn>>
storeVars == <<pc, call, table, files, outcome, snap, committed, loaded>>

(***************************************************************************)
(* Bounds                                                                  *)
(***************************************************************************)
MaxCols == 3        \* longest schema / column list drawn as an input
MaxBucket == 1      \* longest family bucket drawn as an input

\* width of the numpy unicode cells holding the schema row
StrWidth == 75

RECURSIVE SeqsUpTo(_, _)
SeqsUpTo(S, n) ==
    IF n = 0 THEN {<<>>}
    ELSE LET shorter == SeqsUpTo(S, n - 1)
         IN  shorter \cup {Append(s, x) : s \in shorter, x \in S}

Range(s) == {s[i] : i \in 1..Len(s)}

RECURSIVE Repeat(_, _)
Repeat(s, n) == IF n = 0 THEN "" ELSE s \o Repeat(s, n - 1)

(***************************************************************************)
(* Python / Spark string primitives                                        *)
(***************************************************************************)
\* s.startswith(prefix)
StartsWith(s, prefix) ==
    /\ Len(s) >= Len(prefix)
    /\ SubSeq(s, 1, Len(prefix)) = prefix

\* sub in s
Contains(s, sub) ==
    \E i \in 1..(Len(s) - Len(sub) + 1) : SubSeq(s, i, i + Len(sub) - 1) = sub

\* assignment into a numpy array of dtype '<U75': silently cut at the width
Truncate(s) == IF Len(s) > StrWidth THEN SubSeq(s, 1, StrWidth) ELSE s

\* str.replace("'", "\"") applied to a piece of the catalog text
RECURSIVE Requote(_)
Requote(s) ==
    IF s = "" THEN ""
    ELSE LET c == SubSeq(s, 1, 1)
         IN  (IF c = "'" THEN "\"" ELSE c) \o Requote(SubSeq(s, 2, Len(s)))

Digit(d) == SubSeq("0123456789", d + 1, d + 1)

RECURSIVE IntStr(_)
IntStr(n) == IF n < 10 THEN Digit(n) ELSE IntStr(n \div 10) \o Digit(n % 10)

RECURSIVE StripZeros(_)
StripZeros(s) ==
    IF Len(s) > 1 /\ SubSeq(s, Len(s), Len(s)) = "0"
    THEN StripZeros(SubSeq(s, 1, Len(s) - 1))
    ELSE s

\* cast of a double to string (java.lang.Double.toString); the double is n/10
DoubleStr(n) ==
    IF n < 100000000
    THEN IntStr(n \div 10) \o "." \o Digit(n % 10)
    ELSE LET digits == StripZeros(IntStr(n))
             frac == IF Len(digits) = 1 THEN "0" ELSE SubSeq(digits, 2, Len(digits))
         IN  SubSeq(digits, 1, 1) \o "." \o frac \o "E" \o IntStr(Len(IntStr(n)) - 2)

(***************************************************************************)
(* Values, fields and DataFrames                                           *)
(***************************************************************************)
Str(s) == [tag |-> "string", s |-> s, n |-> 0]
Dbl(n) == [tag |-> "double", s |-> "", n |-> n]
Lng(n) == [tag |-> "long", s |-> "", n |-> n]
Bin(s) == [tag |-> "binary", s |-> s, n |-> 0]
Null == [tag |-> "null", s |-> "", n |-> 0]

\* the "type" of a field of schema.jsonValue(): a str for a primitive type,
\* a dict for an array / struct / map (repr is str() of that dict)
StrType(name) == [dict |-> FALSE, name |-> name, repr |-> name]
DictType(name, repr) == [dict |-> TRUE, name |-> name, repr |-> repr]
Field(name, type) == [name |-> name, type |-> type]
DF(columns, rows) == [columns |-> columns, rows |-> rows]

Names(df) == [i \in 1..Len(df.columns) |-> df.columns[i].name]
NameSet(df) == Range(Names(df))

\* position of the first column called name
IndexOf(names, name) == CHOOSE i \in 1..Len(names) :
    /\ names[i] = name
    /\ \A j \in 1..(i - 1) : names[j] # name

\* col(i).astype('string')
CastString(v) ==
    CASE v.tag = "null" -> Null
      [] v.tag = "double" -> Str(DoubleStr(v.n))
      [] v.tag = "long" -> Str(IntStr(v.n))
      [] OTHER -> Str(v.s)

NoError == "none"


AnalysisException == "AnalysisException"
KeyError == "KeyError"
IndexError == "IndexError"
WriteError == "WriteError"
OSError == "OSError"

NoDF == DF(<<>>, <<>>)
EmptyDict == [k \in {} |-> ""]

(***************************************************************************)
(* Spark column expressions and DataFrame operations                       *)
(***************************************************************************)
\* a str column name, or col(ref) itself
Col(name) == [ref |-> name, name |-> name]
\* col(ref).alias(name)
Alias(ref, name) == [ref |-> ref, name |-> name]

Resolves(df, e) == e.ref \in NameSet(df)

\* df.select(exprs): AnalysisException when one expression does not resolve
Select(df, exprs) ==
    IF \E i \in 1..Len(exprs) : ~Resolves(df, exprs[i])
    THEN [raised |-> AnalysisException, df |-> NoDF]
    ELSE LET src(i) == IndexOf(Names(df), exprs[i].ref)
         IN  [raised |-> NoError,
              df |-> DF([i \in 1..Len(exprs) |->
                            Field(exprs[i].name, df.columns[src(i)].type)],
                        [r \in 1..Len(df.rows) |->
                            [i \in 1..Len(exprs) |-> df.rows[r][src(i)]]])]

\* df.withColumnRenamed(existing, new): no-op when existing is no column
WithColumnRenamed(df, existing, new) ==
    DF([i \in 1..Len(df.columns) |->
           IF df.columns[i].name = existing
           THEN Field(new, df.columns[i].type)
           ELSE df.columns[i]],
       df.rows)

\* df.withColumn(name, values): replaces the column called name, else appends
WithColumn(df, name, type, values) ==
    IF name \in NameSet(df)
    THEN DF([i \in 1..Len(df.columns) |->
                IF df.columns[i].name = name THEN Field(name, type) ELSE df.columns[i]],
            [r \in 1..Len(df.rows) |->
                [i \in 1..Len(df.columns) |->
                    IF df.columns[i].name = name THEN values[r] ELSE df.rows[r][i]]])
    ELSE DF(Append(df.columns, Field(name, type)),
            [r \in 1..Len(df.rows) |-> Append(df.rows[r], values[r])])

\* sep.join(strs)
RECURSIVE JoinStr(_, _)
JoinStr(strs, sep) ==
    IF strs = <<>> THEN ""
    ELSE IF Len(strs) = 1 THEN strs[1]
    ELSE strs[1] \o sep \o JoinStr(Tail(strs), sep)

IsNotNull(v) == v.tag # "null"

\* a null value is joined as an empty string
ConcatWsKeepNull(sep, vals) ==
    Str(JoinStr([i \in 1..Len(vals) |-> vals[i].s], sep))

\* concat_ws(sep, *cols) on one row: null values are skipped
ConcatWs(sep, vals) ==
    LET present == SelectSeq(vals, IsNotNull)
    IN  Str(JoinStr([i \in 1..Len(present) |-> present[i].s], sep))

(***************************************************************************)
(* select_relevant_columns                                                 *)
(***************************************************************************)
None == [none |-> TRUE, list |-> <<>>]
List(l) == [none |-> FALSE, list |-> l]

\* the resolved names are collected in reverse
RECURSIVE SelectLoopReversed(_, _, _, _)
SelectLoopReversed(df, cols, cnames, missing_cols) ==
    IF cols = <<>> THEN [cnames |-> cnames, missing_cols |-> missing_cols]
    ELSE LET col_ == Head(cols)
         IN  IF Select(df, <<col_>>).raised = NoError
             THEN SelectLoopReversed(df, Tail(cols), <<col_>> \o cnames, missing_cols)
             ELSE SelectLoopReversed(df, Tail(cols), cnames, Append(missing_cols, col_))

\* the for loop: [cnames, missing_cols] after trying each col_ in turn
RECURSIVE SelectLoop(_, _, _, _)
SelectLoop(df, cols, cnames, missing_cols) ==
    IF cols = <<>> THEN [cnames |-> cnames, missing_cols |-> missing_cols]
    ELSE LET col_ == Head(cols)
         IN  IF Select(df, <<col_>>).raised = NoError
             THEN SelectLoop(df, Tail(cols), Append(cnames, col_), missing_cols)
             ELSE SelectLoop(df, Tail(cols), cnames, Append(missing_cols, col_))

select_relevant_columns(df, cols, logger, to_create) ==
    LET loop == SelectLoop(df, cols, <<>>, <<>>)
        cnames == IF ~to_create.none THEN loop.cnames \o to_create.list ELSE loop.cnames
        sel == Select(df, cnames)
    IN  [raised |-> sel.raised,
         df |-> sel.df,
         cnames |-> cnames,
         missing_cols |-> loop.missing_cols,
         log |-> IF sel.raised = NoError /\ logger THEN <<loop.missing_cols>> ELSE <<>>]

(***************************************************************************)
(* assign_column_family_names                                              *)
(***************************************************************************)
\* cf.update({i: family for i in columns})
Update(cf, columns, family) ==
    [k \in DOMAIN cf \cup Range(columns) |->
        IF k \in Range(columns) THEN family ELSE cf[k]]

assign_column_family_names(df, cols_i, cols_d, cols_b) ==
    LET si == Select(df, cols_i)
        sd == Select(df, cols_d)
        sb == Select(df, cols_b)
    IN  IF si.raised # NoError \/ sd.raised # NoError \/ sb.raised # NoError
        THEN [raised |-> AnalysisException, cf |-> EmptyDict]
        ELSE [raised |-> NoError,
              cf |-> Update(Update(Update(EmptyDict, Names(si.df), "i"),
                                   Names(sd.df), "d"),
                            Names(sb.df), "b")]

(***************************************************************************)
(* retrieve_row_key_cols, attach_rowkey                                    *)
(***************************************************************************)
retrieve_row_key_cols == <<"objectId", "jd">>

attach_rowkey(df, sep) ==
    LET row_key_cols == retrieve_row_key_cols
        row_key_name == JoinStr(row_key_cols, "_")
        to_concat(r) == [i \in 1..Len(row_key_cols) |->
                            CastString(df.rows[r][IndexOf(Names(df), row_key_cols[i])])]
    IN  IF \E i \in 1..Len(row_key_cols) : row_key_cols[i] \notin NameSet(df)
        THEN [raised |-> AnalysisException, df |-> NoDF, row_key_name |-> row_key_name]
        ELSE [raised |-> NoError,
              df |-> WithColumn(df, row_key_name, StrType("string"),
                                [r \in 1..Len(df.rows) |-> ConcatWs(sep, to_concat(r))]),
              row_key_name |-> row_key_name]


(***************************************************************************)
(* construct_hbase_catalog_from_flatten_schema                             *)
(***************************************************************************)
\* the rewrite of timestamp left out
NormalizeTypeNoTimestamp(type) ==
    IF type.dict THEN "string" ELSE type.name

\* the two type rewrites at the head of the loop body; the result is a str
NormalizeType(type) ==
    LET t1 == IF type.dict THEN StrType("string") ELSE type
        t2 == IF t1 = StrType("timestamp") THEN StrType("string") ELSE t1
    IN  t2.name

\* one line "'key': {'cf': .., 'col': .., 'type': ..}" of the catalog text
Entry(key, cf, col, type) == [key |-> key, cf |-> cf, col |-> col, type |-> type]

AnnotationEntry == Entry("annotation", "a", "", "string")

\* a column without a family is skipped instead of raising
RECURSIVE CatalogLoopSkip(_, _, _, _)
CatalogLoopSkip(schema_columns, rowkeyname, cf, entries) ==
    IF schema_columns = <<>> THEN [raised |-> NoError, entries |-> entries]
    ELSE LET column == Head(schema_columns)
             type == NormalizeType(column.type)
         IN  IF column.name = rowkeyname
             THEN CatalogLoopSkip(Tail(schema_columns), rowkeyname, cf,
                      Append(entries, Entry(column.name, "rowkey", column.name, type)))
             ELSE IF column.name \in DOMAIN cf
             THEN CatalogLoopSkip(Tail(schema_columns), rowkeyname, cf,
                      Append(entries, Entry(column.name, cf[column.name], column.name, type)))
             ELSE CatalogLoopSkip(Tail(schema_columns), rowkeyname, cf, entries)

\* the key column's entry is moved to the front
RECURSIVE CatalogLoopKeyFirst(_, _, _, _)
CatalogLoopKeyFirst(schema_columns, rowkeyname, cf, entries) ==
    IF schema_columns = <<>> THEN [raised |-> NoError, entries |-> entries]
    ELSE LET column == Head(schema_columns)
             type == NormalizeType(column.type)
         IN  IF column.name = rowkeyname
             THEN CatalogLoopKeyFirst(Tail(schema_columns), rowkeyname, cf,
                      <<Entry(column.name, "rowkey", column.name, type)>> \o entries)
             ELSE IF column.name \in DOMAIN cf
             THEN CatalogLoopKeyFirst(Tail(schema_columns), rowkeyname, cf,
                      Append(entries, Entry(column.name, cf[column.name], column.name, type)))
             ELSE [raised |-> KeyError, entries |-> entries]

\* the for loop over schema_columns: KeyError at the first column that is
\* neither the row key nor a key of cf
RECURSIVE CatalogLoop(_, _, _, _)
CatalogLoop(schema_columns, rowkeyname, cf, entries) ==
    IF schema_columns = <<>> THEN [raised |-> NoError, entries |-> entries]
    ELSE LET column == Head(schema_columns)
             type == NormalizeType(column.type)
         IN  IF column.name = rowkeyname
             THEN CatalogLoop(Tail(schema_columns), rowkeyname, cf,
                      Append(entries, Entry(column.name, "rowkey", column.name, type)))
             ELSE IF column.name \in DOMAIN cf
             THEN CatalogLoop(Tail(schema_columns), rowkeyname, cf,
                      Append(entries, Entry(column.name, cf[column.name], column.name, type)))
             ELSE [raised |-> KeyError, entries |-> entries]

RequoteEntry(e) ==
    Entry(Requote(e.key), Requote(e.cf), Requote(e.col), Requote(e.type))

NoCatalog == [namespace |-> "", name |-> "", rowkey |-> "", columns |-> <<>>]

construct_hbase_catalog_from_flatten_schema(schema, catalogname, rowkeyname, cf) ==
    LET loop == CatalogLoop(schema, rowkeyname, cf, <<>>)
        columns == Append(loop.entries, AnnotationEntry)
    IN  IF loop.raised # NoError
        THEN [raised |-> loop.raised, catalog |-> NoCatalog]
        ELSE [raised |-> NoError,
              catalog |-> [namespace |-> "default",
                           name |-> Requote(catalogname),
                           rowkey |-> Requote(rowkeyname),
                           columns |-> [i \in 1..Len(columns) |-> RequoteEntry(columns[i])]]]

(***************************************************************************)
(* construct_schema_row                                                    *)
(***************************************************************************)
SchemaRowFill == "fits/image"
BinaryPattern == "cutout"

construct_schema_row(df, rowkeyname, version) ==
    LET names == Names(df)
        data == [i \in 1..Len(names) |-> Truncate(df.columns[i].type.repr)]
        masked == [i \in 1..Len(names) |->
                      IF Contains(names[i], BinaryPattern)
                      THEN Truncate(SchemaRowFill)
                      ELSE data[i]]
    IN  IF rowkeyname \notin Range(names)
        THEN [raised |-> IndexError, df |-> NoDF]
        ELSE LET index == IndexOf(names, rowkeyname)
                 final == [masked EXCEPT ![index] = Truncate(version)]
             IN  [raised |-> NoError,
                  df |-> DF([i \in 1..Len(names) |-> Field(names[i], StrType("string"))],
                            << [i \in 1..Len(names) |-> Str(final[i])] >>)]

(***************************************************************************)
(* Inputs of the pure operations                                           *)
(***************************************************************************)
ArrayRepr == "{'type': 'array', 'elementType': 'float', 'containsNull': True}"

FieldPool ==
    { Field("objectId", StrType("string")),
      Field("jd", StrType("double")),
      Field("objectId_jd", StrType("string")),
      Field("cutoutScience_stampData", StrType("binary")),
      Field("timestamp", StrType("timestamp")),
      Field("lc", DictType("array", ArrayRepr)) }

Schemas == SeqsUpTo(FieldPool, MaxCols)

FamilyMaps ==
    { EmptyDict,
      [k \in {"objectId", "jd", "timestamp", "lc"} |-> IF k = "lc" THEN "d" ELSE "i"],
      [k \in {"objectId", "jd", "timestamp", "lc", "cutoutScience_stampData", "objectId_jd"} |->
          CASE k = "lc" -> "d"
            [] k = "cutoutScience_stampData" -> "b"
            [] OTHER -> "i"] }

\* alerts already flattened by a select
Alerts ==
    DF(<<Field("objectId", StrType("string")),
         Field("jd", StrType("double")),
         Field("candid", StrType("long")),
         Field("cutoutScience_stampData", StrType("binary"))>>,
       << <<Str("ZTF18abc"), Dbl(24588495), Lng(7), Bin("fits")>>,
          <<Str("ZTF19xyz"), Dbl(100000000), Lng(8), Bin("fits")>> >>)

\* alerts with null key values
NullAlerts ==
    DF(<<Field("jd", StrType("double")),
         Field("objectId", StrType("string")),
         Field("lc", DictType("array", ArrayRepr))>>,
       << <<Null, Str("ZTF18abc"), Null>>,
          <<Dbl(5), Null, Null>> >>)

\* a dataset without the jd column
NoJd ==
    DF(<<Field("objectId", StrType("string")),
         Field("timestamp", StrType("timestamp"))>>,
       << <<Str("ZTF18abc"), Null>> >>)

Datasets ==
    { Alerts, NullAlerts, NoJd,
      attach_rowkey(Alerts, "_").df,
      WithColumnRenamed(attach_rowkey(Alerts, "_").df, "objectId_jd", "schema_version") }

ColPool == {Col("objectId"), Col("jd"), Col("anomaly_score"),
            Alias("cutoutScience_stampData", "cutout")}

DerivedPool == {None, List(<<>>), List(<<Alias("jd", "t")>>),
                List(<<Alias("jd", "t"), Col("objectId")>>),
                List(<<Alias("rf", "rf_snia")>>)}

Versions == {"", "schema_v0", "schema_2.4_0.7.1",
             Repeat("v", StrWidth), Repeat("v", StrWidth + 1)}

(***************************************************************************)
(* The pure operations, each applied to inputs drawn from the sets above   *)
(***************************************************************************)
NoCall == [op |-> "none"]

DoSelect ==
    /\ ret = NoCall
    /\ \E df \in Datasets, cols \in SeqsUpTo(ColPool, MaxCols),
       logger \in BOOLEAN, to_create \in DerivedPool :
        ret' = [op |-> "select", df |-> df, cols |-> cols, logger |-> logger,
                to_create |-> to_create,
                out |-> select_relevant_columns(df, cols, logger, to_create)]
    /\ UNCHANGED <<storeVars, fbvsn, fsvsn>>

DoAssign ==
    /\ ret = NoCall
    /\ \E df \in Datasets, cols_i \in SeqsUpTo(ColPool, MaxBucket),
       cols_d \in SeqsUpTo(ColPool, MaxBucket), cols_b \in SeqsUpTo(ColPool, MaxBucket) :
        ret' = [op |-> "assign", df |-> df, cols_i |-> cols_i, cols_d |-> cols_d,
                cols_b |-> cols_b,
                out |-> assign_column_family_names(df, cols_i, cols_d, cols_b)]
    /\ UNCHANGED <<storeVars, fbvsn, fsvsn>>

DoAttach ==
    /\ ret = NoCall
    /\ \E df \in Datasets, sep \in {"_", "-"} :
        ret' = [op |-> "attach", df |-> df, sep |-> sep, out |-> attach_rowkey(df, sep)]
    /\ UNCHANGED <<storeVars, fbvsn, fsvsn>>

DoCatalog ==
    /\ ret = NoCall
    /\ \E schema \in Schemas, catalogname \in {"mycatalogname"},
       rowkeyname \in {"objectId_jd", "objectId", "timestamp"}, cf \in FamilyMaps :
        ret' = [op |-> "catalog", schema |-> schema, catalogname |-> catalogname,
                rowkeyname |-> rowkeyname, cf |-> cf,
                out |-> construct_hbase_catalog_from_flatten_schema(
                            schema, catalogname, rowkeyname, cf)]
    /\ UNCHANGED <<storeVars, fbvsn, fsvsn>>

DoSchemaRow ==
    /\ ret = NoCall
    /\ \E df \in Datasets, rowkeyname \in {"schema_version", "objectId", "cutoutScience_stampData"},
       version \in Versions :
        ret' = [op |-> "schema_row", df |-> df, rowkeyname |-> rowkeyname,
                version |-> version,
                out |-> construct_schema_row(df, rowkeyname, version)]
    /\ UNCHANGED <<storeVars, fbvsn, fsvsn>>


(***************************************************************************)
(* The store, the side files, load_hbase_data, write_catalog_on_disk       *)
(***************************************************************************)
TableNames == {"t1"}
CatFolders == {"."}

\* os.path.join(catfolder, file_name)
PathJoin(folder, file_name) == folder \o "/" \o file_name

CatalogFileName(table_name) == table_name \o ".json"
SchemaCatalogFileName(table_name) == table_name \o "_schema_row.json"

\* the version without the reserved prefix
SchemaVersionNoPrefix(fb, fs) == fb \o "_" \o fs

\* 'schema_{}_{}'.format(fbvsn, fsvsn)
SchemaVersion(fb, fs) == "schema_" \o fb \o "_" \o fs

\* the rows the connector writes for df under catalog: one per row of df,
\* keyed by the value of the catalog's rowkey column; is_schema records
\* which of the two writes of push_to_hbase made the row
StoreRows(df, catalog, is_schema) ==
    LET k == IndexOf(Names(df), catalog.rowkey)
    IN  {[key |-> CastString(df.rows[r][k]).s, schema |-> is_schema, vals |-> df.rows[r]] :
            r \in 1..Len(df.rows)}

\* a put replaces the row stored under the same key
Put(rows, new) == {r \in rows : \A n \in new : n.key # r.key} \cup new

\* df.write...save() into the table the catalog names
Save(tbl, df, catalog, is_schema) ==
    [tbl EXCEPT ![catalog.name] = Put(@, StoreRows(df, catalog, is_schema))]

\* the connector cannot write rows whose key column is not in the DataFrame
CanSave(df, catalog) == catalog.rowkey \in NameSet(df)

\* what a save() that raises may leave behind: the write is no transaction,
\* so any part of the rows may have reached the table before the failure
FailedSaves(tbl, df, catalog, is_schema) ==
    IF CanSave(df, catalog)
    THEN {[tbl EXCEPT ![catalog.name] = Put(@, written)] :
             written \in SUBSET StoreRows(df, catalog, is_schema)}
    ELSE {tbl}

\* open(catalogname, 'w') and json.dump: the file then holds the catalog
write_catalog_on_disk(fs, catalog, catalogname) ==
    [p \in DOMAIN fs \cup {catalogname} |-> IF p = catalogname THEN catalog ELSE fs[p]]

\* the rows of the catalog's table whose key does not start with 'schema_'
load_hbase_data(tbl, catalog, rowkey) ==
    {r \in tbl[catalog.name] : ~StartsWith(r.key, "schema_")}

(***************************************************************************)
(* push_to_hbase, one action per statement that can fail or has an effect  *)
(***************************************************************************)
\* the catalog is persisted before the data is pushed
PushStepsFileFirst ==
    <<"catalog_file", "data_write", "schema_row", "schema_write", "schema_file">>

\* the schema catalog is persisted before the schema row is pushed
PushStepsSchemaFileFirst ==
    <<"data_write", "catalog_file", "schema_row", "schema_file", "schema_write">>

\* the statements of push_to_hbase after the first catalog is compiled
PushSteps == <<"data_write", "catalog_file", "schema_row", "schema_write", "schema_file">>

StepAfter(step) ==
    LET i == IndexOf(PushSteps, step)
    IN  IF i = Len(PushSteps) THEN "idle" ELSE PushSteps[i + 1]

NoPush == [df |-> NoDF, table_name |-> "", rowkeyname |-> "", cf |-> EmptyDict,
           catfolder |-> "", hbcatalog_index |-> NoCatalog, df_index_schema |-> NoDF,
           hbcatalog_index_schema |-> NoCatalog]

Ended(stage, raised) == [stage |-> stage, raised |-> raised]

\* an exception leaves push_to_hbase: nothing that was written is undone
Raise(stage, raised) ==
    /\ pc' = "idle"
    /\ outcome' = Ended(stage, raised)

Proceed(step) ==
    /\ pc' = StepAfter(step)
    /\ outcome' = IF StepAfter(step) = "idle" THEN Ended("done", NoError) ELSE outcome

KeyedAlerts == attach_rowkey(Alerts, "_").df

\* one alert whose objectId starts with schema_
SchemaNamed ==
    attach_rowkey(DF(<<Field("objectId", StrType("string")), Field("jd", StrType("double"))>>,
                     << <<Str("schema_x"), Dbl(5)>> >>), "_").df

PushDatasets == {KeyedAlerts, SchemaNamed, Alerts}

PushFamilyMaps ==
    { [k \in {"objectId", "jd"} |-> "i"],
      [k \in {"objectId", "jd", "candid", "cutoutScience_stampData"} |->
          IF k = "cutoutScience_stampData" THEN "b" ELSE "i"] }

Push ==
    /\ pc = "idle"
    /\ \E df \in PushDatasets, table_name \in TableNames, cf \in PushFamilyMaps,
          rowkeyname \in {"objectId_jd"}, catfolder \in CatFolders :
        LET compiled == construct_hbase_catalog_from_flatten_schema(
                            df.columns, table_name, rowkeyname, cf)
        IN  /\ call' = [NoPush EXCEPT !.df = df, !.table_name = table_name,
                                      !.rowkeyname = rowkeyname, !.cf = cf,
                                      !.catfolder = catfolder,
                                      !.hbcatalog_index = compiled.catalog]
            /\ snap' = [table |-> table, files |-> files]
            /\ IF compiled.raised # NoError
               THEN Raise("catalog", compiled.raised)
               ELSE /\ pc' = PushSteps[1]
                    /\ outcome' = Ended("running", NoError)
    /\ UNCHANGED <<table, files, committed, loaded, ret, fbvsn, fsvsn>>

DataWrite ==
    /\ pc = "data_write"
    /\ \E ok \in BOOLEAN :
        IF ok /\ CanSave(call.df, call.hbcatalog_index)
        THEN /\ table' = Save(table, call.df, call.hbcatalog_index, FALSE)
             /\ Proceed("data_write")
        ELSE /\ Raise("data_write", WriteError)
             /\ table' \in FailedSaves(table, call.df, call.hbcatalog_index, FALSE)
    /\ UNCHANGED <<call, files, snap, committed, loaded, ret, fbvsn, fsvsn>>

CatalogFile ==
    /\ pc = "catalog_file"
    /\ \E ok \in BOOLEAN :
        IF ok
        THEN /\ files' = write_catalog_on_disk(files, call.hbcatalog_index,
                            PathJoin(call.catfolder, CatalogFileName(call.table_name)))
             /\ Proceed("catalog_file")
        ELSE /\ Raise("catalog_file", OSError)
             /\ UNCHANGED files
    /\ UNCHANGED <<call, table, snap, committed, loaded, ret, fbvsn, fsvsn>>

SchemaRow ==
    /\ pc = "schema_row"
    /\ LET schema_row_key_name == "schema_version"
           df == WithColumnRenamed(call.df, call.rowkeyname, schema_row_key_name)
           row == construct_schema_row(df, schema_row_key_name, SchemaVersion(fbvsn, fsvsn))
           compiled == construct_hbase_catalog_from_flatten_schema(
                           row.df.columns, call.table_name, schema_row_key_name, call.cf)
       IN  IF row.raised # NoError
           THEN /\ Raise("schema_row", row.raised)
                /\ UNCHANGED call
           ELSE IF compiled.raised # NoError
           THEN /\ Raise("schema_row", compiled.raised)
                /\ UNCHANGED call
           ELSE /\ call' = [call EXCEPT !.df_index_schema = row.df,
                                        !.hbcatalog_index_schema = compiled.catalog]
                /\ Proceed("schema_row")
    /\ UNCHANGED <<table, files, snap, committed, loaded, ret, fbvsn, fsvsn>>

SchemaWrite ==
    /\ pc = "schema_write"
    /\ \E ok \in BOOLEAN :
        IF ok /\ CanSave(call.df_index_schema, call.hbcatalog_index_schema)
        THEN /\ table' = Save(table, call.df_index_schema, call.hbcatalog_index_schema, TRUE)
             /\ committed' = committed \cup {<<call.catfolder, call.table_name>>}
             /\ Proceed("schema_write")
        ELSE /\ Raise("schema_write", WriteError)
             /\ table' \in FailedSaves(table, call.df_index_schema,
                                       call.hbcatalog_index_schema, TRUE)
             /\ UNCHANGED committed
    /\ UNCHANGED <<call, files, snap, loaded, ret, fbvsn, fsvsn>>

SchemaFile ==
    /\ pc = "schema_file"
    /\ \E ok \in BOOLEAN :
        IF ok
        THEN /\ files' = write_catalog_on_disk(files, call.hbcatalog_index_schema,
                            PathJoin(call.catfolder, SchemaCatalogFileName(call.table_name)))
             /\ Proceed("schema_file")
        ELSE /\ Raise("schema_file", OSError)
             /\ UNCHANGED files
    /\ UNCHANGED <<call, table, snap, committed, loaded, ret, fbvsn, fsvsn>>

NoLoad == [name |-> "", rows |-> {}]

\* a read of a table through one of the catalogs persisted on disk
Load ==
    /\ pc = "idle"
    /\ \E p \in DOMAIN files :
        loaded' = [name |-> files[p].name,
                   rows |-> load_hbase_data(table, files[p], files[p].rowkey)]
    /\ UNCHANGED <<pc, call, table, files, outcome, snap, committed, ret, fbvsn, fsvsn>>

(***************************************************************************)
(* Specifications                                                          *)
(***************************************************************************)
StoreInit ==
    /\ pc = "idle"
    /\ call = NoPush
    /\ table = [t \in TableNames |-> {}]
    /\ files = [p \in {} |-> NoCatalog]
    /\ outcome = Ended("none", NoError)
    /\ snap = [table |-> table, files |-> files]
    /\ committed = {}
    /\ loaded = NoLoad

\* push_to_hbase and load_hbase_data against one store and one catalog folder
Init ==
    /\ StoreInit
    /\ ret = NoCall
    /\ fbvsn \in {"2.4", Repeat("9", StrWidth)}
    /\ fsvsn \in {"0.7.1"}

Next ==
    \/ Push
    \/ DataWrite
    \/ CatalogFile
    \/ SchemaRow
    \/ SchemaWrite
    \/ SchemaFile
    \/ Load

Spec == Init /\ [][Next]_vars

\* the pure operations applied to drawn inputs
FnInit ==
    /\ StoreInit
    /\ ret = NoCall
    /\ fbvsn = "2.4"
    /\ fsvsn = "0.7.1"

FnNext ==
    \/ DoSelect
    \/ DoAssign
    \/ DoAttach
    \/ DoCatalog
    \/ DoSchemaRow

SpecFn == FnInit /\ [][FnNext]_vars


(***************************************************************************)
(* Catalog compiler: C2, C3, C4                                            *)
(***************************************************************************)
IsCatalogCall == ret.op = "catalog"

\* a field that is not the key column and has no family
Unmapped(schema, rowkeyname, cf) ==
    {i \in 1..Len(schema) : schema[i].name # rowkeyname /\ schema[i].name \notin DOMAIN cf}

\* C2: the key column gets the family rowkey whatever the family map holds,
\* every other field gets the family the map gives it, and when a non-key
\* field has no family the compilation raises and returns no catalog.
C2_MissingFamilyAborts ==
    IsCatalogCall =>
        IF Unmapped(ret.schema, ret.rowkeyname, ret.cf) # {}
        THEN /\ ret.out.raised = KeyError
             /\ ret.out.catalog = NoCatalog
        ELSE /\ ret.out.raised = NoError
             /\ \A i \in 1..Len(ret.schema) :
                    ret.out.catalog.columns[i].cf =
                        IF ret.schema[i].name = ret.rowkeyname
                        THEN "rowkey"
                        ELSE ret.cf[ret.schema[i].name]

\* a compilation that emitted for the key column, absent from the family
\* map, and then aborted on a later unmapped field
C2_Witness ==
    /\ IsCatalogCall
    /\ Len(ret.schema) >= 2
    /\ ret.schema[1].name = ret.rowkeyname
    /\ ret.rowkeyname \notin DOMAIN ret.cf
    /\ ret.out.raised = KeyError

\* C3: with every non-key field mapped, the catalog holds one entry per field
\* in schema order, qualifier and key equal to the field name, and then the
\* annotation entry (family a, empty qualifier, type string) as the last one.
C3_OneEntryPerFieldThenAnnotation ==
    (IsCatalogCall /\ Unmapped(ret.schema, ret.rowkeyname, ret.cf) = {}) =>
        /\ ret.out.raised = NoError
        /\ Len(ret.out.catalog.columns) = Len(ret.schema) + 1
        /\ \A i \in 1..Len(ret.schema) :
              /\ ret.out.catalog.columns[i].col = ret.schema[i].name
              /\ ret.out.catalog.columns[i].key = ret.schema[i].name
        /\ ret.out.catalog.columns[Len(ret.schema) + 1] =
              [key |-> "annotation", cf |-> "a", col |-> "", type |-> "string"]
        /\ ret.out.catalog.rowkey = ret.rowkeyname
        /\ ret.out.catalog.name = ret.catalogname

\* a catalog whose key column is the second of three fields
C3_Witness ==
    /\ IsCatalogCall
    /\ ret.out.raised = NoError
    /\ Len(ret.schema) = 3
    /\ ret.schema[1].name # ret.rowkeyname
    /\ ret.schema[2].name = ret.rowkeyname
    /\ ret.out.catalog.columns[2].cf = "rowkey"
    /\ ret.out.catalog.columns[4].cf = "a"

\* C4: the type of every entry, the key column's included, is string for a
\* dict (array) type and for timestamp, and the declared name otherwise.
C4_TypeNormalization ==
    (IsCatalogCall /\ ret.out.raised = NoError) =>
        \A i \in 1..Len(ret.schema) :
            ret.out.catalog.columns[i].type =
                IF ret.schema[i].type.dict \/ ret.schema[i].type.name = "timestamp"
                THEN "string"
                ELSE ret.schema[i].type.name

\* a catalog with a timestamp key column, an array column and a double column
C4_Witness ==
    /\ IsCatalogCall
    /\ ret.out.raised = NoError
    /\ ret.rowkeyname = "timestamp"
    /\ \E i, j, k \in 1..Len(ret.schema) :
          /\ ret.schema[i].name = "timestamp"
          /\ ret.schema[j].type.dict
          /\ ret.schema[k].type.name = "double"
          /\ ret.out.catalog.columns[i].type = "string"
          /\ ret.out.catalog.columns[j].type = "string"
          /\ ret.out.catalog.columns[k].type = "double"


(***************************************************************************)
(* Column classifier and family assignment: C5, C6                         *)
(***************************************************************************)
IsSelectCall == ret.op = "select"

Derived(to_create) == IF to_create.none THEN <<>> ELSE to_create.list

\* C5: select_relevant_columns raises only when a derived expression does not
\* resolve, never for an absent desired column; the select list is the
\* desired columns that resolve, in input order, then the derived
\* expressions in input order; the projection has exactly those columns; the
\* names that do not resolve are the ones collected as missing (and logged).
C5_MissingColumnsExcluded ==
    IsSelectCall =>
        LET InDf(e) == e.ref \in {ret.df.columns[i].name : i \in 1..Len(ret.df.columns)}
            NotInDf(e) == ~InDf(e)
            resolved == SelectSeq(ret.cols, InDf)
            derived == Derived(ret.to_create)
            wanted == resolved \o derived
        IN  /\ ret.out.missing_cols = SelectSeq(ret.cols, NotInDf)
            /\ ret.out.cnames = wanted
            /\ \A i \in 1..Len(ret.out.cnames) : NotInDf(ret.out.cnames[i]) =>
                  i > Len(resolved)
            /\ (ret.out.raised # NoError) <=> (\E i \in 1..Len(derived) : NotInDf(derived[i]))
            /\ ret.out.raised = NoError =>
                  /\ Len(ret.out.df.columns) = Len(wanted)
                  /\ \A i \in 1..Len(wanted) :
                        /\ ret.out.df.columns[i].name = wanted[i].name
                        /\ \E j \in 1..Len(ret.df.columns) :
                              /\ ret.df.columns[j].name = wanted[i].ref
                              /\ ret.df.columns[j].type = ret.out.df.columns[i].type
                              /\ \A r \in 1..Len(ret.df.rows) :
                                    ret.out.df.rows[r][i] = ret.df.rows[r][j]
                  /\ ret.out.log = IF ret.logger THEN <<ret.out.missing_cols>> ELSE <<>>

\* a projection of two resolved columns around a missing one, followed by a
\* derived expression, reported to the logger
C5_Witness ==
    /\ IsSelectCall
    /\ ret.df = Alerts
    /\ ret.cols = <<Col("jd"), Col("anomaly_score"), Col("objectId")>>
    /\ ret.to_create = List(<<Alias("jd", "t")>>)
    /\ ret.logger
    /\ ret.out.raised = NoError
    /\ Names(ret.out.df) = <<"jd", "objectId", "t">>
    /\ ret.out.log = << <<Col("anomaly_score")>> >>

IsAssignCall == ret.op = "assign"

\* C6: assign_column_family_names ignores the bucket names that do not
\* resolve, and maps exactly the resolved columns of the three buckets, each
\* to the family of the last bucket (i, then d, then b) that holds it.
C6_UnresolvedBucketNamesIgnored ==
    IsAssignCall =>
        LET InDf(e) == e.ref \in NameSet(ret.df)
            ri == {e.name : e \in {x \in Range(ret.cols_i) : InDf(x)}}
            rd == {e.name : e \in {x \in Range(ret.cols_d) : InDf(x)}}
            rb == {e.name : e \in {x \in Range(ret.cols_b) : InDf(x)}}
        IN  /\ ret.out.raised = NoError
            /\ DOMAIN ret.out.cf = ri \cup rd \cup rb
            /\ \A k \in DOMAIN ret.out.cf :
                  ret.out.cf[k] = IF k \in rb THEN "b" ELSE IF k \in rd THEN "d" ELSE "i"

(***************************************************************************)
(* Row-key builder: C7                                                     *)
(***************************************************************************)
IsAttachCall == ret.op = "attach"
HasKeyCols(df) == {"objectId", "jd"} \subseteq NameSet(df)
ValueOf(df, r, name) == df.rows[r][IndexOf(Names(df), name)]

\* the value concat_ws gives: the string forms of the key values that are
\* not null, in key-list order, with the separator between two of them
KeyValue(df, r, sep) ==
    LET a == CastString(ValueOf(df, r, "objectId"))
        b == CastString(ValueOf(df, r, "jd"))
    IN  IF a.tag = "null" /\ b.tag = "null" THEN ""
        ELSE IF a.tag = "null" THEN b.s
        ELSE IF b.tag = "null" THEN a.s
        ELSE a.s \o sep \o b.s

IsSchemaRowCall == ret.op = "schema_row"

\* C8: one record with the columns of the input in the same order; the key
\* column holds the version string as supplied, a column whose name contains
\* cutout holds fits/image, every other column holds its declared type.
C8_SchemaRowValues ==
    (IsSchemaRowCall /\ ret.rowkeyname \in NameSet(ret.df)) =>
        /\ ret.out.raised = NoError
        /\ Len(ret.out.df.rows) = 1
        /\ Names(ret.out.df) = Names(ret.df)
        /\ \A i \in 1..Len(ret.df.columns) :
              ret.out.df.rows[1][i].s =
                  IF ret.df.columns[i].name = ret.rowkeyname THEN ret.version
                  ELSE IF Contains(ret.df.columns[i].name, "cutout") THEN "fits/image"
                  ELSE ret.df.columns[i].type.repr


(***************************************************************************)
(* Store writer: C1, C9, C10                                               *)
(***************************************************************************)
CatalogPath == PathJoin(call.catfolder, CatalogFileName(call.table_name))
SchemaCatalogPath == PathJoin(call.catfolder, SchemaCatalogFileName(call.table_name))

\* how many of the four effects (data rows, catalog file, schema row, schema
\* catalog file) the running or last call is to have made at this point
EffectsDue ==
    LET at == IF pc = "idle" THEN outcome.stage ELSE pc
    IN  CASE at \in {"none", "catalog", "data_write"} -> 0
          [] at = "catalog_file" -> 1
          [] at \in {"schema_row", "schema_write"} -> 2
          [] at = "schema_file" -> 3
          [] at = "done" -> 4

DataRows ==
    IF CanSave(call.df, call.hbcatalog_index)
    THEN StoreRows(call.df, call.hbcatalog_index, FALSE)
    ELSE {}

SchemaRows ==
    IF CanSave(call.df_index_schema, call.hbcatalog_index_schema)
    THEN StoreRows(call.df_index_schema, call.hbcatalog_index_schema, TRUE)
    ELSE {}
FailedAt(stage) == pc = "idle" /\ outcome = [stage |-> stage, raised |-> WriteError]

\* the table of the call is base with all of rows put into it, or, when the
\* write of rows failed, with some of them
Holds(base, rows, failed) ==
    /\ \A t \in TableNames \ {call.table_name} : table[t] = base[t]
    /\ \E written \in SUBSET rows :
          /\ ~failed => written = rows
          /\ table[call.table_name] =
                {r \in base[call.table_name] : \A w \in written : w.key # r.key} \cup written

WithData == [snap.table EXCEPT ![call.table_name] =
                {r \in @ : \A w \in DataRows : w.key # r.key} \cup DataRows]

FilesAfter(n) ==
    LET one == [p \in DOMAIN snap.files \cup {CatalogPath} |->
                   IF p = CatalogPath THEN call.hbcatalog_index ELSE snap.files[p]]
    IN  IF n <= 1 THEN snap.files
        ELSE IF n <= 3 THEN one
        ELSE [p \in DOMAIN one \cup {SchemaCatalogPath} |->
                 IF p = SchemaCatalogPath THEN call.hbcatalog_index_schema ELSE one[p]]

\* C1: the effects of a call are made in the order data rows, catalog file,
\* schema row, schema catalog file, each only after the one before: a call
\* that failed at the data write wrote no side file and no schema row; a
\* call that failed at the schema-row write left the data rows and the
\* catalog file in place and wrote no schema catalog file.
C1_WriteOrderNoRollback ==
    /\ files = FilesAfter(EffectsDue)
    /\ CASE FailedAt("data_write") -> Holds(snap.table, DataRows, TRUE)
         [] FailedAt("schema_write") -> Holds(WithData, SchemaRows, TRUE)
         [] EffectsDue = 0 -> table = snap.table
         [] EffectsDue \in {1, 2} -> table = WithData
         [] OTHER -> Holds(WithData, SchemaRows, FALSE)
    /\ FailedAt("data_write") =>
          /\ files = snap.files
          /\ \A r \in table[call.table_name] : r.schema => r \in snap.table[call.table_name]
    /\ FailedAt("schema_write") =>
          /\ \A d \in DataRows :
                d \in table[call.table_name] \/ \E r \in SchemaRows : r.key = d.key
          /\ CatalogPath \in DOMAIN files
          /\ files[CatalogPath] = call.hbcatalog_index
          /\ SchemaCatalogPath \in DOMAIN files =>
                /\ SchemaCatalogPath \in DOMAIN snap.files
                /\ files[SchemaCatalogPath] = snap.files[SchemaCatalogPath]

\* a first call that wrote the data rows and the catalog file and then
\* failed at the schema-row write
C1_Witness ==
    /\ pc = "idle"
    /\ outcome = Ended("schema_write", WriteError)
    /\ snap.files = [p \in {} |-> NoCatalog]
    /\ Cardinality(table[call.table_name]) = 2
    /\ DOMAIN files = {"./t1.json"}

\* C9: what load_hbase_data returned holds no schema row; every schema row of
\* a table has a key that begins with schema_, and that is
\* schema_{fbvsn}_{fsvsn} whenever this fits in a cell of the schema row.
C9_ReadExcludesSchemaRows ==
    /\ \A r \in loaded.rows : ~r.schema
    /\ \A t \in TableNames : \A r \in table[t] : r.schema =>
          /\ SubSeq(r.key, 1, 7) = "schema_"
          /\ r \notin load_hbase_data(table, [name |-> t], "schema_version")
          /\ Len("schema_" \o fbvsn \o "_" \o fsvsn) <= StrWidth =>
                r.key = "schema_" \o fbvsn \o "_" \o fsvsn

\* a read that returned the two data rows of a table that also holds a
\* schema row
C9_Witness ==
    /\ Cardinality(loaded.rows) = 2
    /\ loaded.name = "t1"
    /\ \E r \in table["t1"] : r.schema
    /\ \A r \in table["t1"] : ~r.schema => r \in loaded.rows

BothFiles(folder, t) ==
    /\ PathJoin(folder, CatalogFileName(t)) \in DOMAIN files
    /\ PathJoin(folder, SchemaCatalogFileName(t)) \in DOMAIN files

\* C10 as claimed: after a call that ended normally or failed at one of its
\* two store writes, when both side files of the table exist that call, the
\* most recent, has done both its data write and its schema-row write.
C10_Original ==
    (/\ pc = "idle"
     /\ outcome.stage \in {"data_write", "schema_write", "done"}
     /\ BothFiles(call.catfolder, call.table_name)) =>
        outcome.stage = "done"

\* C10 amended: from a folder without the side files, when both side files
\* of a table exist, one call (not necessarily the most recent) has done both
\* its data write and its schema-row write.
C10_Amended ==
    \A folder \in CatFolders, t \in TableNames :
        BothFiles(folder, t) => <<folder, t>> \in committed

\* both side files are there from an earlier call, and the most recent call
\* failed at its data write
C10_Witness ==
    /\ pc = "idle"
    /\ outcome = Ended("data_write", WriteError)
    /\ BothFiles(call.catfolder, call.table_name)
    /\ <<call.catfolder, call.table_name>> \in committed

====
